---- MODULE Spec2Model ----
(***************************************************************************)
(* A model of package p2p (src/p2p.go): the Config/Option machinery and    *)
(* NewHost, the Host methods, and the per-topic background goroutines that *)
(* AddBroadcastPubSub starts.  The libp2p host, the DHT and pubsub are     *)
(* external collaborators: each call into them is a nondeterministic       *)
(* success or failure.                                                     *)
(***************************************************************************)
EXTENDS Integers, Sequences, FiniteSets, TLC

\* ------------------------------------------------------------- bounds
\* Longest option list handed to NewHost in the option specification.
MaxOpts == 2
\* Inbound broadcast messages that reach the host.
MaxMsgs == 1

\* ---------------------------------------------------- program constants
\* DefaultConfig.Port / DefaultConfig.ExternalPort (p2p.go:52,54)
DefaultPort == 30001
DefaultExternalPort == 30001
\* DefaultConfig.ConnectTimeout = time.Minute, in seconds (p2p.go:57)
DefaultConnectTimeout == 60

\* ------------------------------------------------------- input domains
HostNames == {"10.0.0.2"}
Ports == {0, 30002}
ExternalHostNames == {"1.2.3.4"}
ExternalPorts == {30003}
Durations == {5}
\* The port the operating system picks when the host listens on port 0.
ActualPorts == {40000}

Threads == {1, 2}
Topics == {"t1"}
UnicastTopics == {"u1"}
Callbacks == {"cb1", "cb2"}
Peers == {"p1"}
NoCallback == "none"

VARIABLES
    options,    \* the options passed to NewHost
    optIdx,     \* NewHost: number of options applied so far
    cfg,        \* NewHost's local cfg, then Host.cfg
    phase,      \* "new" (inside NewHost) | "up" (host returned) | "failed"
    newPubSub,  \* Host.newPubSub: "flood" | "gossip"
    topics,     \* Host.topics with the stream handler set for each topic
    pubs,       \* Host.pubs: topic -> id of the PubSub, 0 when absent
    subs,       \* Host.subs: topic -> id of the Subscription, 0 when absent
    objs,       \* every PubSub/Subscription pair created, with its goroutine
    closed,     \* Host.close is a closed channel
    kadClosed,  \* kad.Close() has succeeded
    hostClosed, \* host.Close() has been called
    ctxDone,    \* Host.ctx is cancelled
    pc,         \* per calling thread: position inside a Host method
    loc,        \* per calling thread: locals of the method in progress
    last,       \* the call that returned most recently
    panicked,   \* "no", or the runtime failure that ended the process
    nextMsg,    \* id of the next inbound broadcast message
    delivered   \* message id -> number of broadcast callback invocations

vars == << options, optIdx, cfg, phase, newPubSub, topics, pubs, subs, objs,
           closed, kadClosed, hostClosed, ctxDone, pc, loc, last,
           panicked, nextMsg, delivered >>

hostVars == << topics, pubs, subs, objs, closed, kadClosed, hostClosed,
               ctxDone, pc, loc, last, panicked, nextMsg,
               delivered >>

\* ------------------------------------------------------------- Config
Fields == {"HostName", "Port", "ExternalHostName", "ExternalPort",
           "SecureIO", "Gossip", "ConnectTimeout"}

DefaultConfig ==
    [ HostName         |-> "127.0.0.1",
      Port             |-> DefaultPort,
      ExternalHostName |-> "",
      ExternalPort     |-> DefaultExternalPort,
      SecureIO         |-> FALSE,
      Gossip           |-> FALSE,
      ConnectTimeout   |-> DefaultConnectTimeout ]

\* An Option value: the constructor that made it and its argument (TRUE for
\* the two argument-less constructors, which set their flag).
HostName(hostName) == [name |-> "HostName", val |-> hostName]
Port(port) == [name |-> "Port", val |-> port]
ExternalHostName(h) == [name |-> "ExternalHostName", val |-> h]
ExternalPort(p) == [name |-> "ExternalPort", val |-> p]
SecureIO == [name |-> "SecureIO", val |-> TRUE]
Gossip == [name |-> "Gossip", val |-> TRUE]
ConnectTimeout(timout) == [name |-> "ConnectTimeout", val |-> timout]

AllOptions ==
    { HostName(h) : h \in HostNames } \cup { Port(p) : p \in Ports } \cup
    { ExternalHostName(h) : h \in ExternalHostNames } \cup
    { ExternalPort(p) : p \in ExternalPorts } \cup
    { SecureIO, Gossip } \cup { ConnectTimeout(t) : t \in Durations }

\* The closure an Option constructor returns, applied to a Config.
ApplyOption(c, o) ==
    CASE o.name = "HostName"         -> [c EXCEPT !.HostName = o.val]
      [] o.name = "Port"             -> [c EXCEPT !.Port = o.val]
      [] o.name = "ExternalHostName" -> [c EXCEPT !.ExternalHostName = o.val]
      [] o.name = "ExternalPort"     -> [c EXCEPT !.ExternalPort = o.val]
      [] o.name = "SecureIO"         -> [c EXCEPT !.SecureIO = TRUE]
      [] o.name = "Gossip"           -> [c EXCEPT !.Gossip = TRUE]
      [] o.name = "ConnectTimeout"   -> [c EXCEPT !.Gossip = TRUE]

\* pubsub.NewFloodSub unless cfg.Gossip.
PubSubConstructor(c) == IF c.Gossip THEN "gossip" ELSE "flood"


\* ------------------------------------------------------------ helpers
SeqsUpTo(S, n) == UNION { [1..k -> S] : k \in 0..n }

Range(s) == { s[i] : i \in 1..Len(s) }

\* The library calls a method made when the call named fail returned an
\* error: the calls before it and the failing call itself.
CallsUpTo(calls, fail) ==
    IF fail \in Range(calls)
    THEN SubSeq(calls, 1, CHOOSE i \in 1..Len(calls) : calls[i] = fail)
    ELSE calls

\* The record kept of a call that has returned: the method, its argument,
\* the error returned ("nil", "panic", or the library call whose error it
\* is), the library calls made, and those of them that failed.
Returned(op, arg, ret, calls, failed) ==
    [op |-> op, arg |-> arg, ret |-> ret, calls |-> calls, failed |-> failed]

NoCall == Returned("none", "", "nil", << >>, {})

\* pub, sub and the goroutine of one successful newPubSub + Subscribe.
NewObj(topic, cb, kind) ==
    [ topic |-> topic, cb |-> cb, kind |-> kind, cancelled |-> FALSE,
      queue |-> << >>, task |-> "none", msg |-> 0 ]

Ids == 1..Len(objs)

\* Thread th is not inside a method of the host NewHost returned.
Running(th) == phase = "up" /\ panicked = "no" /\ pc[th] = "idle"

AllIdle == \A th \in Threads : pc[th] = "idle"

\* Thread th calls a method while no call of a method is in progress.
Called(th) == Running(th) /\ AllIdle

Return(th, r) == /\ pc' = [pc EXCEPT ![th] = "idle"]
                 /\ loc' = [loc EXCEPT ![th] = [topic |-> "", id |-> 0]]
                 /\ last' = r

\* --------------------------------------------------------------- Init
InitHost ==
    /\ optIdx = 0
    /\ cfg = DefaultConfig
    /\ phase = "new"
    /\ newPubSub = "unset"
    /\ topics = [t \in UnicastTopics |-> NoCallback]
    /\ pubs = [t \in Topics |-> 0]
    /\ subs = [t \in Topics |-> 0]
    /\ objs = << >>
    /\ closed = FALSE
    /\ kadClosed = FALSE
    /\ hostClosed = FALSE
    /\ ctxDone = FALSE
    /\ pc = [th \in Threads |-> "idle"]
    /\ loc = [th \in Threads |-> [topic |-> "", id |-> 0]]
    /\ last = NoCall
    /\ panicked = "no"
    /\ nextMsg = 1
    /\ delivered = [m \in 1..MaxMsgs |-> 0]

\* The option lists the host specifications construct their host from.
HostOptionLists == { << Port(0), Gossip >> }

Init == options \in HostOptionLists /\ InitHost

InitOptions == options \in SeqsUpTo(AllOptions, MaxOpts) /\ InitHost

\* ------------------------------------------------------------ NewHost
\* One iteration of the loop over options (p2p.go:136-140).  No option
\* closure returns an error.
NewHost_Option ==
    /\ phase = "new"
    /\ optIdx < Len(options)
    /\ cfg' = ApplyOption(cfg, options[optIdx + 1])
    /\ optIdx' = optIdx + 1
    /\ UNCHANGED << options, phase, newPubSub >>
    /\ UNCHANGED hostVars

\* The rest of NewHost (p2p.go:141-230): any of the library calls may fail
\* (ok = FALSE) and NewHost then returns no host; otherwise the pubsub
\* constructor is chosen, a zero port is replaced by the port listened on,
\* and the host is returned.
NewHost_Build(ok, actualPort) ==
    /\ phase = "new"
    /\ optIdx = Len(options)
    /\ IF ok
       THEN /\ phase' = "up"
            /\ newPubSub' = PubSubConstructor(cfg)
            /\ cfg' = IF cfg.Port = 0 THEN [cfg EXCEPT !.Port = actualPort]
                                      ELSE cfg
       ELSE /\ phase' = "failed"
            /\ UNCHANGED << newPubSub, cfg >>
    /\ UNCHANGED << options, optIdx >>
    /\ UNCHANGED hostVars

NewHost == \/ NewHost_Option
           \/ \E ok \in BOOLEAN, p \in ActualPorts : NewHost_Build(ok, p)

\* ------------------------------------------------------------ Connect
ConnectCalls == << "NewMultiaddr", "InfoFromP2pAddr", "host.Connect" >>

Connect(th, peer, fail) ==
    /\ Called(th)
    /\ Return(th, Returned("Connect", "",
                           IF fail = "none" THEN "nil" ELSE fail,
                           CallsUpTo(ConnectCalls, fail),
                           {fail} \ {"none"}))
    /\ UNCHANGED << options, optIdx, cfg, phase, newPubSub, topics, pubs,
                    subs, objs, closed, kadClosed, hostClosed, ctxDone,
                    panicked, nextMsg, delivered >>

\* -------------------------------------------------------- JoinOverlay
\* (A JoinOverlay that passes the error of Provide through, without the
\* Bootstrap call.)
JoinOverlayOutcome_NoBootstrap(provideFails, bootstrapFails) ==
    [ret |-> IF provideFails THEN "kad.Provide" ELSE "nil",
     calls |-> << "kad.Provide" >>,
     failed |-> IF provideFails THEN {"kad.Provide"} ELSE {}]

\* What JoinOverlay calls and returns, given the results of the DHT calls.
JoinOverlayOutcome(provideFails, bootstrapFails) ==
    IF ~provideFails
    THEN [ret |-> "nil", calls |-> << "kad.Provide" >>, failed |-> {}]
    ELSE [ret |-> IF bootstrapFails THEN "kad.Bootstrap" ELSE "nil",
          calls |-> << "kad.Provide", "kad.Bootstrap" >>,
          failed |-> {"kad.Provide"} \cup
                     (IF bootstrapFails THEN {"kad.Bootstrap"} ELSE {})]

JoinOverlay(th, provideFails, bootstrapFails) ==
    /\ Called(th)
    /\ LET o == JoinOverlayOutcome(provideFails, bootstrapFails)
       IN Return(th, Returned("JoinOverlay", "", o.ret, o.calls, o.failed))
    /\ UNCHANGED << options, optIdx, cfg, phase, newPubSub, topics, pubs,
                    subs, objs, closed, kadClosed, hostClosed, ctxDone,
                    panicked, nextMsg, delivered >>

\* --------------------------------------------------- AddUnicastPubSub
AddUnicastPubSub(th, topic, callback) ==
    /\ Called(th)
    /\ topics' = IF topics[topic] # NoCallback
                 THEN topics
                 ELSE [topics EXCEPT ![topic] = callback]
    /\ Return(th, Returned("AddUnicastPubSub", "", "nil",
                           IF topics[topic] # NoCallback
                           THEN << >> ELSE << "SetStreamHandler" >>, {}))
    /\ UNCHANGED << options, optIdx, cfg, phase, newPubSub, pubs, subs,
                    objs, closed, kadClosed, hostClosed, ctxDone, panicked, nextMsg, delivered >>

\* The stream handler AddUnicastPubSub installs (p2p.go:264-278), run by the
\* library for an inbound stream: errors are logged, nothing is returned.
StreamHandler(topic, readFails) ==
    /\ phase = "up" /\ panicked = "no"
    /\ topics[topic] # NoCallback
    /\ last' = Returned("streamHandler", "", "nil",
                        IF readFails
                        THEN << "ReadAll", "stream.Close" >>
                        ELSE << "ReadAll", topics[topic], "stream.Close" >>,
                        IF readFails THEN {"ReadAll"} ELSE {})
    /\ UNCHANGED << options, optIdx, cfg, phase, newPubSub, topics, pubs,
                    subs, objs, closed, kadClosed, hostClosed, ctxDone,
                    pc, loc, panicked, nextMsg, delivered >>


\* ------------------------------------------------- AddBroadcastPubSub
\* (An AddBroadcastPubSub without the lookup in h.pubs.)
AlreadyAdded_Unchecked(topic) == FALSE

\* The lookup in h.pubs that opens AddBroadcastPubSub (p2p.go:286).
AlreadyAdded(topic) == pubs[topic] # 0

AddBroadcastCalls == << "newPubSub", "Subscribe" >>

\* p2p.go:286-296: the lookup in h.pubs, then newPubSub and Subscribe.  With
\* both created the method goes on to store them (pc "abp_store").
AddBroadcastPubSub_Create(th, topic, callback, fail) ==
    /\ Running(th)
    /\ IF AlreadyAdded(topic)
       THEN /\ Return(th, Returned("AddBroadcastPubSub", topic, "nil",
                                   << >>, {}))
            /\ UNCHANGED objs
       ELSE IF fail # "none"
       THEN /\ Return(th, Returned("AddBroadcastPubSub", topic, fail,
                                   CallsUpTo(AddBroadcastCalls, fail),
                                   {fail}))
            /\ UNCHANGED objs
       ELSE /\ objs' = Append(objs, NewObj(topic, callback, newPubSub))
            /\ pc' = [pc EXCEPT ![th] = "abp_store"]
            /\ loc' = [loc EXCEPT ![th] =
                          [topic |-> topic, id |-> Len(objs) + 1]]
            /\ UNCHANGED last
    /\ UNCHANGED << options, optIdx, cfg, phase, newPubSub, topics, pubs,
                    subs, closed, kadClosed, hostClosed, ctxDone, panicked, nextMsg, delivered >>

\* AddBroadcastPubSub called while no call of a method is in progress.
AddBroadcastPubSub(th, topic, callback, fail) ==
    /\ AllIdle
    /\ AddBroadcastPubSub_Create(th, topic, callback, fail)

\* p2p.go:297-298: h.pubs[topic] = pub; h.subs[topic] = sub.
AddBroadcastPubSub_Store(th) ==
    /\ panicked = "no"
    /\ pc[th] = "abp_store"
    /\ pubs' = [pubs EXCEPT ![loc[th].topic] = loc[th].id]
    /\ subs' = [subs EXCEPT ![loc[th].topic] = loc[th].id]
    /\ pc' = [pc EXCEPT ![th] = "abp_go"]
    /\ UNCHANGED << options, optIdx, cfg, phase, newPubSub, topics, objs,
                    closed, kadClosed, hostClosed, ctxDone, loc,
                    last, panicked, nextMsg, delivered >>

\* p2p.go:299-316: the go statement, then return nil.
AddBroadcastPubSub_Go(th) ==
    /\ panicked = "no"
    /\ pc[th] = "abp_go"
    /\ objs' = [objs EXCEPT ![loc[th].id].task = "select"]
    /\ Return(th, Returned("AddBroadcastPubSub", loc[th].topic, "nil",
                           AddBroadcastCalls, {}))
    /\ UNCHANGED << options, optIdx, cfg, phase, newPubSub, topics, pubs,
                    subs, closed, kadClosed, hostClosed, ctxDone, panicked, nextMsg, delivered >>

\* Host has no lock: a write of h.pubs/h.subs that runs while another thread
\* reads, writes or ranges over the maps is a data race, which the Go
\* runtime may answer by ending the process.
MapRace(th) ==
    /\ panicked = "no"
    /\ pc[th] = "abp_store"
    /\ \E o \in Threads \ {th} : pc[o] \in {"idle", "abp_store", "close_rest"}
    /\ panicked' = "concurrent map writes"
    /\ UNCHANGED << options, optIdx, cfg, phase, newPubSub, topics, pubs,
                    subs, objs, closed, kadClosed, hostClosed, ctxDone,
                    pc, loc, last, nextMsg, delivered >>

\* ---------------------------------------------------------- Broadcast
Broadcast(th, topic, publishFails) ==
    /\ Called(th)
    /\ Return(th, IF pubs[topic] = 0
                  THEN Returned("Broadcast", "", "nil", << >>, {})
                  ELSE IF publishFails
                  THEN Returned("Broadcast", "", "Publish",
                                << "Publish" >>, {"Publish"})
                  ELSE Returned("Broadcast", "", "nil",
                                << "Publish" >>, {}))
    /\ UNCHANGED << options, optIdx, cfg, phase, newPubSub, topics, pubs,
                    subs, objs, closed, kadClosed, hostClosed, ctxDone,
                    panicked, nextMsg, delivered >>

\* ------------------------------------------------------------ Unicast
UnicastCalls == << "NewMultiaddr", "ValueForProtocol", "IDB58Decode",
                   "NewStream", "Write" >>

\* What Unicast calls and returns.  Once the stream is open the deferred
\* function runs last and assigns the result of stream.Close() to the named
\* result err, whatever the return statement had put there (p2p.go:349).
UnicastOutcome(fail, closeFails) ==
    IF fail \in {"NewMultiaddr", "ValueForProtocol", "IDB58Decode",
                 "NewStream"}
    THEN [ret |-> fail, calls |-> CallsUpTo(UnicastCalls, fail),
          failed |-> {fail}]
    ELSE [ret |-> IF closeFails THEN "stream.Close" ELSE "nil",
          calls |-> UnicastCalls \o << "stream.Close" >>,
          failed |-> ({fail} \ {"none"}) \cup
                     (IF closeFails THEN {"stream.Close"} ELSE {})]

Unicast(th, peer, fail, closeFails) ==
    /\ Called(th)
    /\ LET o == UnicastOutcome(fail, closeFails)
       IN Return(th, Returned("Unicast", "", o.ret, o.calls, o.failed))
    /\ UNCHANGED << options, optIdx, cfg, phase, newPubSub, topics, pubs,
                    subs, objs, closed, kadClosed, hostClosed, ctxDone,
                    panicked, nextMsg, delivered >>

\* ------------------------------------- Neighbors, Address, MultiAddress
Neighbors(th, fail) ==
    /\ Called(th)
    /\ Return(th, IF fail
                  THEN Returned("Neighbors", "", "GetClosestPeers",
                                << "GetClosestPeers" >>, {"GetClosestPeers"})
                  ELSE Returned("Neighbors", "", "nil",
                                << "GetClosestPeers" >>, {}))
    /\ UNCHANGED << options, optIdx, cfg, phase, newPubSub, topics, pubs,
                    subs, objs, closed, kadClosed, hostClosed, ctxDone,
                    panicked, nextMsg, delivered >>

\* (An Address that writes the port it formats back as zero.)
Address_WritesPort(th) ==
    /\ Called(th)
    /\ cfg' = [cfg EXCEPT !.Port = 0]
    /\ last' = [op |-> "Address", arg |-> cfg.HostName, ret |-> "nil",
                calls |-> << >>, failed |-> {}]
    /\ UNCHANGED << options, optIdx, phase, newPubSub, topics, pubs, subs,
                    objs, closed, kadClosed, hostClosed, ctxDone, pc, loc,
                    panicked, nextMsg, delivered >>

\* Address formats h.cfg.HostName and h.cfg.Port; the record of the call
\* keeps the host name it read.
Address(th) ==
    /\ Called(th)
    /\ Return(th, Returned("Address", cfg.HostName, "nil", << >>, {}))
    /\ UNCHANGED << options, optIdx, cfg, phase, newPubSub, topics, pubs,
                    subs, objs, closed, kadClosed, hostClosed, ctxDone,
                    panicked, nextMsg, delivered >>

MultiAddress(th) ==
    /\ Called(th)
    /\ Return(th, Returned("MultiAddress", "", "nil",
                           << "Addrs", "NewMultiaddr" >>, {}))
    /\ UNCHANGED << options, optIdx, cfg, phase, newPubSub, topics, pubs,
                    subs, objs, closed, kadClosed, hostClosed, ctxDone,
                    panicked, nextMsg, delivered >>

\* -------------------------------------------------------------- Close
\* p2p.go:404: close(h.close).  Closing a closed channel panics; nothing in
\* the package recovers, and the panic ends the process.
Close_Signal(th) ==
    /\ Called(th)
    /\ IF closed
       THEN /\ panicked' = "close of closed channel"
            /\ last' = Returned("Close", "", "panic", << >>, {})
            /\ UNCHANGED << closed, pc >>
       ELSE /\ closed' = TRUE
            /\ pc' = [pc EXCEPT ![th] = "close_rest"]
            /\ UNCHANGED << panicked, last >>
    /\ UNCHANGED << options, optIdx, cfg, phase, newPubSub, topics, pubs,
                    subs, objs, kadClosed, hostClosed, ctxDone, loc, nextMsg, delivered >>

\* (A Close that cancels no subscription.)
CancelSubs_None(os, table) == os

\* p2p.go:405-407: Cancel every subscription in h.subs.
CancelSubs(os, table) ==
    [ k \in 1..Len(os) |->
        IF \E t \in Topics : table[t] = k
        THEN [os[k] EXCEPT !.cancelled = TRUE]
        ELSE os[k] ]

\* What the tail of Close calls and returns (p2p.go:408-414).
CloseOutcome(kadFails, hostFails) ==
    IF kadFails
    THEN [ret |-> "kad.Close", calls |-> << "kad.Close" >>,
          failed |-> {"kad.Close"}]
    ELSE [ret |-> IF hostFails THEN "host.Close" ELSE "nil",
          calls |-> << "kad.Close", "host.Close" >>,
          failed |-> IF hostFails THEN {"host.Close"} ELSE {}]

\* p2p.go:405-414.
Close_Rest(th, kadFails, hostFails) ==
    /\ panicked = "no"
    /\ pc[th] = "close_rest"
    /\ objs' = CancelSubs(objs, subs)
    /\ LET o == CloseOutcome(kadFails, hostFails)
       IN /\ kadClosed' = (kadClosed \/ ~kadFails)
          /\ hostClosed' = (hostClosed \/ "host.Close" \in Range(o.calls))
          /\ Return(th, Returned("Close", "", o.ret, o.calls, o.failed))
    /\ UNCHANGED << options, optIdx, cfg, phase, newPubSub, topics, pubs,
                    subs, closed, ctxDone, panicked, nextMsg,
                    delivered >>

\* --------------------------------- the goroutine of AddBroadcastPubSub
\* p2p.go:301-304: the select on h.close with a default branch.
Task_Select(k) ==
    /\ panicked = "no"
    /\ k \in Ids
    /\ objs[k].task = "select"
    /\ objs' = [objs EXCEPT ![k].task = IF closed THEN "done" ELSE "next"]
    /\ UNCHANGED << options, optIdx, cfg, phase, newPubSub, topics, pubs,
                    subs, closed, kadClosed, hostClosed, ctxDone, pc, loc, last, panicked, nextMsg, delivered >>

\* p2p.go:305-309: sub.Next(h.ctx) returns a queued message, or an error
\* once the subscription is cancelled and drained or the context is done;
\* after an error the loop continues.  Otherwise the call blocks.
Task_Next(k) ==
    /\ panicked = "no"
    /\ k \in Ids
    /\ objs[k].task = "next"
    /\ \/ /\ objs[k].queue # << >>
          /\ objs' = [objs EXCEPT ![k].task = "callback",
                                  ![k].msg = Head(objs[k].queue),
                                  ![k].queue = Tail(objs[k].queue)]
       \/ /\ ctxDone \/ (objs[k].cancelled /\ objs[k].queue = << >>)
          /\ objs' = [objs EXCEPT ![k].task = "select"]
    /\ UNCHANGED << options, optIdx, cfg, phase, newPubSub, topics, pubs,
                    subs, closed, kadClosed, hostClosed, ctxDone, pc, loc, last, panicked, nextMsg, delivered >>

\* p2p.go:310-312: callback(msg.Data); its error is only logged.
Task_Callback(k) ==
    /\ panicked = "no"
    /\ k \in Ids
    /\ objs[k].task = "callback"
    /\ delivered' = [delivered EXCEPT ![objs[k].msg] = @ + 1]
    /\ objs' = [objs EXCEPT ![k].task = "select", ![k].msg = 0]
    /\ UNCHANGED << options, optIdx, cfg, phase, newPubSub, topics, pubs,
                    subs, closed, kadClosed, hostClosed, ctxDone, pc, loc, last, panicked, nextMsg >>

\* -------------------------------------------------------- environment
\* pubsub hands a message of the topic to every subscription of the topic
\* that is not cancelled.
Inbound(topic) ==
    /\ phase = "up" /\ panicked = "no"
    /\ nextMsg <= MaxMsgs
    /\ \E k \in Ids : objs[k].topic = topic /\ ~objs[k].cancelled
    /\ objs' = [ k \in Ids |->
                   IF objs[k].topic = topic /\ ~objs[k].cancelled
                   THEN [objs[k] EXCEPT !.queue = Append(@, nextMsg)]
                   ELSE objs[k] ]
    /\ nextMsg' = nextMsg + 1
    /\ UNCHANGED << options, optIdx, cfg, phase, newPubSub, topics, pubs,
                    subs, closed, kadClosed, hostClosed, ctxDone, pc, loc, last, panicked, delivered >>

\* The owner of the context given to NewHost cancels it.
CancelCtx ==
    /\ phase = "up" /\ panicked = "no"
    /\ ~ctxDone
    /\ ctxDone' = TRUE
    /\ UNCHANGED << options, optIdx, cfg, phase, newPubSub, topics, pubs,
                    subs, objs, closed, kadClosed, hostClosed, pc, loc, last, panicked, nextMsg, delivered >>

\* ------------------------------------------------------ specifications
ConnectFailures == {"none", "NewMultiaddr", "InfoFromP2pAddr", "host.Connect"}
AddBroadcastFailures == {"none", "newPubSub", "Subscribe"}
UnicastFailures == {"none"} \cup Range(UnicastCalls)

\* A thread calls a method of the host, no other call being in progress.
Call(th) ==
    \/ \E p \in Peers, f \in ConnectFailures : Connect(th, p, f)
    \/ \E pf \in BOOLEAN, bf \in BOOLEAN : JoinOverlay(th, pf, bf)
    \/ \E t \in UnicastTopics, cb \in Callbacks : AddUnicastPubSub(th, t, cb)
    \/ \E t \in Topics, cb \in Callbacks, f \in AddBroadcastFailures :
          AddBroadcastPubSub(th, t, cb, f)
    \/ \E t \in Topics, f \in BOOLEAN : Broadcast(th, t, f)
    \/ \E p \in Peers, f \in UnicastFailures, cf \in BOOLEAN :
          Unicast(th, p, f, cf)
    \/ \E f \in BOOLEAN : Neighbors(th, f)
    \/ Address(th)
    \/ MultiAddress(th)
    \/ Close_Signal(th)

\* A thread inside a method takes its next step.
Step(th) ==
    \/ AddBroadcastPubSub_Store(th)
    \/ AddBroadcastPubSub_Go(th)
    \/ \E kf \in BOOLEAN, hf \in BOOLEAN : Close_Rest(th, kf, hf)

MaxObjs == Cardinality(Threads) * Cardinality(Topics)

\* A goroutine started by AddBroadcastPubSub takes a step.
Task == \E k \in 1..MaxObjs : Task_Select(k) \/ Task_Next(k) \/ Task_Callback(k)

Background ==
    \/ Task
    \/ \E t \in Topics : Inbound(t)
    \/ \E t \in UnicastTopics, rf \in BOOLEAN : StreamHandler(t, rf)
    \/ CancelCtx

\* The methods of the host are called one after the other: a call starts
\* when no other call is in progress.  The goroutines run concurrently.
Next ==
    \/ NewHost
    \/ \E th \in Threads : Call(th)
    \/ \E th \in Threads : Step(th)
    \/ Background

Spec == Init /\ [][Next]_vars

\* Two threads call AddBroadcastPubSub on one host at any time, each as
\* soon as its previous call has returned, while messages arrive.
NextConc ==
    \/ NewHost
    \/ \E th \in Threads, t \in Topics, cb \in Callbacks,
          f \in AddBroadcastFailures : AddBroadcastPubSub_Create(th, t, cb, f)
    \/ \E th \in Threads : AddBroadcastPubSub_Store(th)
    \/ \E th \in Threads : AddBroadcastPubSub_Go(th)
    \/ \E th \in Threads : MapRace(th)
    \/ Task
    \/ \E t \in Topics : Inbound(t)

ConcSpec == Init /\ [][NextConc]_vars

\* NewHost alone, over every option list up to MaxOpts options.
OptionSpec == InitOptions /\ [][NewHost]_vars

\* A goroutine that can run is run, and a thread inside Close goes on.
Fairness ==
    /\ \A k \in 1..MaxObjs :
          /\ WF_vars(Task_Select(k))
          /\ WF_vars(Task_Next(k))
          /\ WF_vars(Task_Callback(k))
    /\ \A th \in Threads :
          /\ WF_vars(\E kf \in BOOLEAN, hf \in BOOLEAN : Close_Rest(th, kf, hf))
          /\ WF_vars(AddBroadcastPubSub_Store(th))
          /\ WF_vars(AddBroadcastPubSub_Go(th))

FairSpec == Spec /\ Fairness


\* ===================================================================
\* Properties
\* ===================================================================

\* The value the options give a field: that of the last
\* option given for the field, or the default.
Given(opts, f) ==
    LET given == { i \in 1..Len(opts) : opts[i].name = f }
    IN IF given = {} THEN DefaultConfig[f]
       ELSE opts[CHOOSE i \in given : \A j \in given : j <= i].val

\* C1: a host built with ConnectTimeout(t) has connect timeout t, and every
\* field of the configuration of a built host has the value of the last
\* option given for it, or its default.  (Stated for every field but Port,
\* which NewHost rewrites on purpose when it is 0, p2p.go:201-210.)
C1_OptionsAppliedAsSet ==
    phase = "up" =>
        /\ cfg.ConnectTimeout = Given(options, "ConnectTimeout")
        /\ \A f \in Fields \ {"Port"} : cfg[f] = Given(options, f)

\* C2: when the stream write inside Unicast fails, Unicast returns an error,
\* whatever the deferred stream close returns.
C2_WriteErrorReturned ==
    (last.op = "Unicast" /\ "Write" \in last.failed) => last.ret # "nil"

\* C3 as stated: JoinOverlay makes exactly one call into the DHT, and when
\* Provide fails it returns that failure.
C3_SingleCallPassThrough ==
    last.op = "JoinOverlay" =>
        /\ Len(last.calls) = 1
        /\ "kad.Provide" \in last.failed => last.ret = "kad.Provide"

\* C3 amended: JoinOverlay calls Provide exactly once; when Provide succeeds
\* it makes no other call and returns nil; when Provide fails it calls
\* Bootstrap exactly once and returns the result of Bootstrap.
C3_ProvideThenBootstrap ==
    last.op = "JoinOverlay" =>
        IF "kad.Provide" \in last.failed
        THEN /\ last.calls = << "kad.Provide", "kad.Bootstrap" >>
             /\ last.ret = IF "kad.Bootstrap" \in last.failed
                           THEN "kad.Bootstrap" ELSE "nil"
        ELSE /\ last.calls = << "kad.Provide" >>
             /\ last.ret = "nil"

C3_Witness ==
    /\ last.op = "JoinOverlay"
    /\ last.failed = {"kad.Provide"}
    /\ last.ret = "nil"

\* A goroutine of AddBroadcastPubSub has ended: it returned, or the process
\* it ran in has ended.
Ended(k) == (k \in Ids /\ objs[k].task = "done") \/ panicked # "no"

C5_OptionsFrame ==
    [][ /\ (phase = "new" /\ optIdx' = optIdx + 1) =>
              \A f \in Fields \ {options[optIdx + 1].name} : cfg'[f] = cfg[f]
        /\ (phase = "new" /\ phase' = "up") =>
              /\ cfg'.Gossip <=> (Gossip \in Range(options))
              /\ (newPubSub' = "gossip") <=> (Gossip \in Range(options))
      ]_vars

\* Every subscription in h.subs is cancelled.
SubsCancelled == \A t \in Topics : subs[t] # 0 => objs[subs[t]].cancelled

\* C6: a Close that has returned has cancelled the subscriptions and closed
\* the network host, also when closing the DHT failed.
C6_CloseClosesHost ==
    (last.op = "Close" /\ last.ret # "panic") =>
        /\ SubsCancelled
        /\ "host.Close" \in Range(last.calls)
        /\ hostClosed

\* C7: once NewHost has returned the host, no step changes its configuration.
C7_ConfigFixed == [][phase = "up" => cfg' = cfg]_vars

\* Methods have run on the host, Close among them.
C7_Witness ==
    /\ phase = "up" /\ hostClosed
    /\ \E t \in Topics : pubs[t] # 0
    /\ \E t \in UnicastTopics : topics[t] # NoCallback
    /\ last.op = "Address"

ObjsOf(t) == { k \in Ids : objs[k].topic = t }

\* A call of AddBroadcastPubSub for topic t returns in this step.
AddBroadcastReturns(t) ==
    /\ \E th \in Threads : pc[th] # "close_rest" /\ pc'[th] = "idle"
                           /\ (pc[th] = "idle" => last' # last)
    /\ last'.op = "AddBroadcastPubSub" /\ last'.arg = t

\* A call of AddBroadcastPubSub for topic t, made with t already added,
\* returns in this step.
AddBroadcastAgainReturns(t) ==
    /\ AllIdle /\ pubs[t] # 0
    /\ AddBroadcastReturns(t)

\* C8: with the calls made one after the other, every added topic has one
\* publisher, one subscription and one goroutine, h.pubs and h.subs hold the
\* same topics, and a topic not added has none of them; a call for a topic
\* already added returns nil and leaves everything of the topic as it is;
\* a call that returns an error adds nothing and starts no goroutine.
C8_OnePerTopic ==
    /\ [](AllIdle => \A t \in Topics :
            /\ (pubs[t] # 0) <=> (subs[t] # 0)
            /\ IF pubs[t] # 0
               THEN /\ ObjsOf(t) = {pubs[t]}
                    /\ subs[t] = pubs[t]
                    /\ objs[pubs[t]].task # "none"
               ELSE ObjsOf(t) = {})
    /\ [][\A t \in Topics :
            /\ AddBroadcastAgainReturns(t) =>
                  /\ last'.ret = "nil"
                  /\ last'.calls = << >>
            /\ pubs[t] # 0 =>
                  /\ pubs'[t] = pubs[t] /\ subs'[t] = subs[t]
                  /\ ObjsOf(t)' = ObjsOf(t)
                  /\ \A k \in ObjsOf(t) : objs'[k].cb = objs[k].cb
            /\ (AddBroadcastReturns(t) /\ last'.ret # "nil") =>
                  /\ pubs' = pubs /\ subs' = subs
                  /\ Len(objs') = Len(objs)
                  /\ \A k \in Ids : objs'[k].task = "none" <=>
                                     objs[k].task = "none"
         ]_vars

\* A second call for an added topic, with another callback, has returned.
C8_Witness ==
    /\ AllIdle
    /\ last.op = "AddBroadcastPubSub" /\ last.calls = << >>
    /\ \E t \in Topics : pubs[t] # 0 /\ last.arg = t

\* C9: with AddBroadcastPubSub called from two threads, a topic never has
\* more than one publisher/subscription pair or more than one goroutine, and
\* no message reaches the callback more than once.
C9_AtMostOnePerTopic ==
    /\ \A t \in Topics :
          /\ Cardinality(ObjsOf(t)) <= 1
          /\ Cardinality({ k \in ObjsOf(t) :
                             objs[k].task \notin {"none", "done"} }) <= 1
    /\ \A m \in 1..MaxMsgs : delivered[m] <= 1

\* C10: no sequence of calls closes the shutdown channel twice: a Close on a
\* closed host does not panic.
C10_NoPanicOnClose == panicked # "close of closed channel"

====
